---- MODULE Spec2Model ----
(***************************************************************************)
(* The exploration/reflection loop of scripts/self_explorer_figma.py       *)
(* (run_exploration) together with the cooperative stop flag that          *)
(* scripts/self_explorer_server.py (stop_exploration) sets from another    *)
(* thread.  One action per blocking step of the loop: the loop test, the   *)
(* decision model call, the driver gesture, the reflection model call,     *)
(* the driver back call, the documentation write, the inter-round sleep    *)
(* and the return.                                                         *)
(***************************************************************************)
EXTENDS Integers, Sequences, FiniteSets, TLC

\* configs["MAX_ROUNDS"]: the configured round limit (a bound of the model).
MAX_ROUNDS == 2

\* Element identifiers (UIElement.uid) that node snapshots are built from.
UIDs == {"u1", "u2"}

\* Documentation strings the reflection response may carry (res[-1]).
DocTexts == {"", "d1", "d2"}

\* Last-action summaries the decision response may carry (res[-1]).
Summaries == {"s1", "s2"}

\* Element indices a decision may carry (int(...) of the model's text).
Areas == (0 - 2) .. 3

\* The fixed keys of a documentation record.
DocKeys == {"tap", "text", "v_swipe", "h_swipe", "long_press"}

\* The record written for an element that has no documentation file yet.
EmptyDoc == [k \in DocKeys |-> ""]

\* Actions that lead to a driver gesture.
GestureActs == {"tap", "long_press", "swipe"}

\* Every other non-FINISH act_name parse_explore_rsp may return.
OtherActs == {"text", "undefined"}

\* Verdicts parse_reflect_rsp may return as res[0].
Verdicts == {"INEFFECTIVE", "BACK", "CONTINUE", "SUCCESS", "ERROR", "OTHER"}

\* Return values of a driver primitive.
DriverRets == {"OK", "ERROR"}

\* Directions a swipe decision may carry (res[2]); the last is none of the four.
SwipeDirs == {"up", "down", "left", "right", "diagonal"}

\* elem.bbox of each element: (top-left, bottom-right) in screen coordinates.
BBox(uid) ==
    IF uid = "u1" THEN <<<<10, 10>>, <<30, 30>>>> ELSE <<<<0, 0>>, <<5, 7>>>>

\* init_data["x"], init_data["y"]: the canvas offset fixed at initialization.
CanvasOffset == <<3, 4>>

\* Thread objects the control surface may create in one run of the server.
MaxWorkers == 2
Workers == 1 .. MaxWorkers

\* Request threads of the control surface that may run concurrently.
Reqs == {"r1", "r2"}

\* What can go wrong in init_exploration, in the order the code meets it:
\* the url has no /file/ or /proto/ key, the url has no starting-point-node-id,
\* the file request raises, the file request answers with a status other than
\* 200, the starting node is not in the file, any later step raises.
InitFailures == {"none", "no_file_key", "no_start_id", "fetch_raises",
                 "fetch_status", "node_not_found", "later_exception"}

\* The arguments and the environment of one init_exploration call: whether the
\* url holds a file key and a starting-point-node-id, how the design file is
\* obtained (from the cache, by a 200 answer, by another status, or the request
\* raises), whether the starting node is in the file, whether the browser steps
\* after it succeed.
InitInputs ==
    [url_key : BOOLEAN, url_start : BOOLEAN,
     file : {"cached", "ok", "status", "raises"},
     node : BOOLEAN, later : BOOLEAN]

\* Node snapshots: sequences of distinct uids in document order.
Snapshots ==
    {s \in UNION {[1..n -> UIDs] : n \in 0..Cardinality(UIDs)} :
        \A i, j \in DOMAIN s : i # j => s[i] # s[j]}

\* Documentation directories the session may start from: docs_dir is per app,
\* so an earlier session may have left a file with a documented tap.
PriorStores ==
    UNION {[S -> {[EmptyDoc EXCEPT !["tap"] = "d1"]}] : S \in {{}, {"u1"}}}

VARIABLES
    pc,            \* position of the worker inside run_exploration
    round_count, doc_count, useless_list, last_act, task_complete,
    stop_event,    \* threading.Event shared with the control surface
    elem_list,     \* this round's candidate uids
    res,           \* the parsed decision after res = res[:-1]: res[0], res[1], len(res)
    act_name, area, decision, doc, resource_id,
    doc_files,     \* docs_dir: uid -> record of the file <uid>.txt
    result,        \* the value run_exploration returns
    exit_cause,    \* why the loop was left
    calls,         \* collaborator calls made in the current round
    marked,        \* uids acted on with verdict INEFFECTIVE/BACK/CONTINUE so far
    useless_at_start, \* useless_list as it was when the current round started
    stop_at,       \* where the worker was when the stop flag was set
    res_round,     \* the round in which res was parsed (0: not in this round)
    writes,        \* non-empty documentation writes of this session, per slot
    ret,           \* what the last driver call of this round returned
    reported_act,  \* res[-1] of this round's decision, before it is stripped
    center,        \* (center_x, center_y), in half units
    driver_point,  \* the point passed to the driver's gesture, in half units
    docs_at_start, \* doc_files as it was when the current round started
    doc_count_at_start, \* doc_count as it was when the current round started
    init_data, exploration_thread, \* globals of the control surface
    worker,        \* state of each exploration thread ever created
    browser,       \* state of the selenium driver's browser
    handler,       \* position of each request thread inside its handler
    reply,         \* the last response of each request thread
    init_call      \* the last init_exploration call: its failure and outcome

vars == <<pc, round_count, doc_count, useless_list, last_act, task_complete,
          stop_event, elem_list, act_name, area, decision, doc, resource_id,
          doc_files, result, exit_cause, calls, marked, useless_at_start,
          stop_at, writes, res, res_round, ret, reported_act, center, driver_point, docs_at_start, doc_count_at_start,
          init_data, exploration_thread, worker, browser, handler, reply,
          init_call>>

\* What a round records besides the loop's own state.
roundlog == <<ret, reported_act, center, driver_point, docs_at_start,
              doc_count_at_start>>

\* The state of the control surface.
srvvars == <<init_data, exploration_thread, worker, browser, handler, reply,
             init_call>>

NoCalls == [gesture |-> 0, reflect |-> 0, back |-> 0, write |-> 0]

NoResult == [status |-> "pending"]

NotStopped == [round |-> 0, pc |-> "none"]

NoRes == [name |-> "none", area |-> 0, len |-> 0]

NoPoint == <<0, 0>>

NoInitCall == [pc |-> "idle", failure |-> "none", outcome |-> "none"]

\* The module-level globals of the control surface, before any request.
ServerIdle ==
    /\ init_data = "None"
    /\ exploration_thread = 0
    /\ worker = [w \in Workers |-> "unborn"]
    /\ browser = "none"
    /\ handler = [r \in Reqs |-> "idle"]
    /\ reply = [r \in Reqs |-> "none"]
    /\ init_call = NoInitCall

\* Positions strictly inside a round.
MidRound == {"decide", "gesture", "reflect", "back", "doc", "sleep"}

LoopInit ==
    /\ pc = "loop"
    /\ round_count = 0
    /\ doc_count = 0
    /\ useless_list = {}
    /\ last_act = "None"
    /\ task_complete = FALSE
    /\ stop_event = FALSE
    /\ elem_list = <<>>
    /\ act_name = "none"
    /\ area = 0
    /\ decision = "none"
    /\ doc = ""
    /\ resource_id = "none"
    /\ doc_files \in PriorStores
    /\ result = NoResult
    /\ exit_cause = "none"
    /\ calls = NoCalls
    /\ marked = {}
    /\ useless_at_start = {}
    /\ stop_at = NotStopped
    /\ writes = [u \in UIDs |-> [k \in DocKeys |-> 0]]
    /\ res = NoRes
    /\ res_round = 0
    /\ ret = "none"
    /\ reported_act = "none"
    /\ center = NoPoint
    /\ driver_point = NoPoint
    /\ docs_at_start = doc_files
    /\ doc_count_at_start = 0

Init == LoopInit /\ ServerIdle

----------------------------------------------------------------------------
(* Helpers of the loop *)

\* while round_count < configs["MAX_ROUNDS"]
LoopCondOffByOne(rc) == rc <= MAX_ROUNDS
LoopCond(rc) == rc < MAX_ROUNDS

\* if stop_event and stop_event.is_set()
StopIgnored(ev) == FALSE
StopObserved(ev) == ev

\* elem_list: the snapshot's elements whose uid is not in useless_list.
FilterNothing(snapshot, useless) == snapshot
FilterUseless(snapshot, useless) ==
    SelectSeq(snapshot, LAMBDA e : e \notin useless)

\* Python list indexing elem_list[i] for a list of n elements: the 1-based
\* position read, or 0 when IndexError is raised (negative i counts from the end).
PyIndexClamped(n, i) ==
    IF n = 0 THEN 0 ELSE IF i >= 0 THEN (IF i < n THEN i + 1 ELSE n)
                         ELSE (IF n + i >= 0 THEN n + i + 1 ELSE 1)
PyIndex(n, i) ==
    IF i >= 0 THEN (IF i < n THEN i + 1 ELSE 0)
    ELSE (IF n + i >= 0 THEN n + i + 1 ELSE 0)

\* Length of res after res = res[:-1], by action: [act_name, area] for tap and
\* long_press; swipe carries a direction and a distance as well.
ResLens(act) == IF act = "swipe" THEN {2, 3, 4} ELSE {2}

\* center_x, center_y: the centre of the box plus the canvas offset.  Python's
\* / gives halves, so the point is kept in half units (twice its value).
CenterNoOffset(tl, br, off) == <<tl[1] + br[1], tl[2] + br[2]>>
Center(tl, br, off) ==
    <<tl[1] + br[1] + 2 * off[1], tl[2] + br[2] + 2 * off[2]>>

\* if act_name == "FINISH"
IsFinishNever(act) == FALSE
IsFinish(act) == act = "FINISH"

\* if act_name in ["tap", "long_press", "swipe"]
IsGesture(act) == act \in GestureActs

\* The if/elif chain on act_name after the after-screenshot: go on to the
\* reflection call, continue with the next round, or break.
ReflectBranch(act) ==
    CASE act \in {"tap", "long_press", "swipe"} -> "reflect"
      [] act = "text" -> "continue"
      [] OTHER -> "break"

\* act_name as the reflection branch leaves it: a swipe becomes v_swipe or
\* h_swipe by its direction, and stays "swipe" for any other direction.
DocActName(act, dir) ==
    IF act = "swipe"
      THEN CASE dir \in {"up", "down"} -> "v_swipe"
             [] dir \in {"left", "right"} -> "h_swipe"
             [] OTHER -> "swipe"
      ELSE act

\* if ret == "ERROR"
DriverFailedNever(r) == FALSE
DriverFailed(r) == r = "ERROR"

\* Verdicts that add the acted uid to useless_list and reset last_act.
MarksUselessAlsoError(d) == d \in {"INEFFECTIVE", "BACK", "CONTINUE", "ERROR"}
MarksUselessAlsoSuccess(d) == d \in {"INEFFECTIVE", "BACK", "CONTINUE", "SUCCESS"}
MarksUselessNoContinue(d) == d \in {"INEFFECTIVE", "BACK"}
MarksUseless(d) == d \in {"INEFFECTIVE", "BACK", "CONTINUE"}

\* Verdicts that reach the documentation write.
Documents(d) == d \in {"BACK", "CONTINUE", "SUCCESS"}

\* if decision == "BACK": selenium_controller.back()
NeedsBackAlsoContinue(d) == d \in {"BACK", "CONTINUE"}
NeedsBack(d) == d = "BACK"

\* if doc_content[act_name]: the slot already holds non-empty text.
SlotFilledNever(rec, key) == FALSE
SlotFilled(rec, key) == rec[key] # ""

\* doc_count += 1
NextDocCountSame(dc) == dc
NextDocCount(dc) == dc + 1

\* "status": "success" if task_complete else "incomplete"
ResultStatusSwapped(tc) == IF tc THEN "incomplete" ELSE "success"
ResultStatus(tc) == IF tc THEN "success" ELSE "incomplete"

\* The result returned after the loop.
LoopResultNoCounts(tc, rc, dc) ==
    [status |-> ResultStatus(tc), task_complete |-> tc]
LoopResult(tc, rc, dc) ==
    [status |-> ResultStatus(tc), task_complete |-> tc, rounds |-> rc,
     docs_generated |-> dc]

\* The result returned by the except clause.
ErrorResult(msg) == [status |-> "error", message |-> msg]

----------------------------------------------------------------------------
(* Ways out of the loop body *)

\* break: control goes to the code after the while loop.
Break(cause) ==
    /\ pc' = "exit"
    /\ exit_cause' = cause
    /\ UNCHANGED result

\* An exception propagates to "except Exception as e" and the function returns.
Raise(msg) ==
    /\ pc' = "done"
    /\ exit_cause' = "exception"
    /\ result' = ErrorResult(msg)

----------------------------------------------------------------------------
(* The steps of run_exploration *)

\* The while condition is false: the loop ends by the round limit.
LoopExit ==
    /\ pc = "loop"
    /\ UNCHANGED <<res, res_round, roundlog, srvvars>>
    /\ ~LoopCond(round_count)
    /\ Break("limit")
    /\ UNCHANGED <<round_count, doc_count, useless_list, last_act, task_complete,
                   stop_event, elem_list, act_name, area, decision, doc,
                   resource_id, doc_files, calls, marked, useless_at_start,
                   stop_at, writes>>

\* The stop flag is seen at the top of the loop body: break.
StopBreak ==
    /\ pc = "loop"
    /\ UNCHANGED <<res, res_round, roundlog, srvvars>>
    /\ LoopCond(round_count)
    /\ StopObserved(stop_event)
    /\ Break("stop")
    /\ UNCHANGED <<round_count, doc_count, useless_list, last_act, task_complete,
                   stop_event, elem_list, act_name, area, decision, doc,
                   resource_id, doc_files, calls, marked, useless_at_start,
                   stop_at, writes>>

\* A round starts: the counter is incremented, the screen is captured and the
\* element list is built from the current node's snapshot.  The per-round
\* locals are dead until the round assigns them again and are reset here.
RoundStart ==
    /\ pc = "loop"
    /\ LoopCond(round_count)
    /\ ~StopObserved(stop_event)
    /\ round_count' = round_count + 1
    /\ \E snapshot \in Snapshots :
          elem_list' = FilterUseless(snapshot, useless_list)
    /\ ret' = "none"
    /\ reported_act' = "none"
    /\ center' = NoPoint
    /\ driver_point' = NoPoint
    /\ docs_at_start' = doc_files
    /\ doc_count_at_start' = doc_count
    /\ UNCHANGED srvvars
    /\ res' = NoRes
    /\ res_round' = 0
    /\ act_name' = "none"
    /\ area' = 0
    /\ decision' = "none"
    /\ doc' = ""
    /\ resource_id' = "none"
    /\ calls' = NoCalls
    /\ useless_at_start' = useless_list
    /\ pc' = "decide"
    /\ UNCHANGED <<doc_count, useless_list, last_act, task_complete, stop_event,
                   doc_files, result, exit_cause, marked, stop_at, writes>>

\* The decision model call fails (status is False): the error is printed, break.
DecideModelFail ==
    /\ pc = "decide"
    /\ UNCHANGED <<res, res_round, roundlog, srvvars>>
    /\ Break("model_fail")
    /\ UNCHANGED <<round_count, doc_count, useless_list, last_act, task_complete,
                   stop_event, elem_list, act_name, area, decision, doc,
                   resource_id, doc_files, calls, marked, useless_at_start,
                   stop_at, writes>>

\* The decision is FINISH (or, were FINISH not recognised, falls to the else
\* branch of the gesture test).  last_act takes whatever the parser put last.
DecideFinish ==
    /\ pc = "decide"
    /\ \E summary \in Summaries : last_act' = summary /\ reported_act' = summary
    /\ UNCHANGED <<ret, center, driver_point, docs_at_start,
                   doc_count_at_start, srvvars>>
    /\ res' = [name |-> "FINISH", area |-> 0, len |-> 0]
    /\ res_round' = round_count
    /\ act_name' = "FINISH"
    /\ IF IsFinish("FINISH")
         THEN /\ task_complete' = TRUE
              /\ Break("finish")
         ELSE /\ task_complete' = task_complete
              /\ Break("no_gesture")
    /\ UNCHANGED <<round_count, doc_count, useless_list, stop_event, elem_list,
                   area, decision, doc, resource_id, doc_files, calls, marked,
                   useless_at_start, stop_at, writes>>

\* The decision is tap, long_press or swipe: res is unpacked into (_, area),
\* the element is looked up and the before-action canvas screenshot is taken.
DecideGesture ==
    /\ pc = "decide"
    /\ \E act \in GestureActs, a \in Areas, summary \in Summaries :
          /\ IsGesture(act)
          /\ act_name' = act
          /\ last_act' = summary
          /\ reported_act' = summary
          /\ \E len \in ResLens(act) :
              /\ res' = [name |-> act, area |-> a, len |-> len]
              /\ res_round' = round_count
              /\ IF len # 2
                  THEN /\ Raise("ValueError")
                       /\ UNCHANGED <<area, center>>
                  ELSE /\ area' = a
                       /\ IF PyIndex(Len(elem_list), a - 1) = 0
                            THEN /\ Raise("IndexError")
                                 /\ center' = center
                            ELSE /\ LET bbox == BBox(elem_list[PyIndex(Len(elem_list), a - 1)])
                                     IN center' = Center(bbox[1], bbox[2], CanvasOffset)
                                 /\ pc' = "gesture"
                                 /\ UNCHANGED <<exit_cause, result>>
    /\ UNCHANGED <<ret, driver_point, docs_at_start, doc_count_at_start,
                   srvvars>>
    /\ UNCHANGED <<round_count, doc_count, useless_list, task_complete,
                   stop_event, elem_list, decision, doc, resource_id, doc_files,
                   calls, marked, useless_at_start, stop_at, writes>>

\* Any other decision (text, an undefined action): the else branch breaks.
DecideOther ==
    /\ pc = "decide"
    /\ \E act \in OtherActs, summary \in Summaries :
          /\ ~IsFinish(act) /\ ~IsGesture(act)
          /\ res' = [name |-> act, area |-> 0, len |-> 2]
          /\ res_round' = round_count
          /\ act_name' = act
          /\ last_act' = summary
          /\ reported_act' = summary
    /\ UNCHANGED <<ret, center, driver_point, docs_at_start,
                   doc_count_at_start, srvvars>>
    /\ Break("no_gesture")
    /\ UNCHANGED <<round_count, doc_count, useless_list, task_complete,
                   stop_event, elem_list, area, decision, doc, resource_id,
                   doc_files, calls, marked, useless_at_start, stop_at, writes>>

\* The driver gesture.  For swipe, res (two elements, or line 320 had raised)
\* is unpacked into three names first, which raises ValueError.  After a
\* successful gesture the loop sleeps, takes the after-screenshot and selects
\* the reflection prompt by act_name.
Gesture ==
    /\ pc = "gesture"
    /\ UNCHANGED <<res, res_round, reported_act, center, docs_at_start,
                   doc_count_at_start, srvvars>>
    /\ IF act_name = "swipe"
         THEN /\ Raise("ValueError")
              /\ UNCHANGED <<calls, ret, driver_point, act_name>>
         ELSE /\ calls' = [calls EXCEPT !.gesture = @ + 1]
              /\ driver_point' = center
              /\ \E r \in DriverRets :
                    /\ ret' = r
                    /\ IF DriverFailed(r)
                         THEN Break("driver_error") /\ act_name' = act_name
                         ELSE CASE ReflectBranch(act_name) = "reflect" ->
                                     /\ \E swipe_dir \in SwipeDirs :
                                           act_name' = DocActName(act_name, swipe_dir)
                                     /\ pc' = "reflect"
                                     /\ UNCHANGED <<exit_cause, result>>
                                [] ReflectBranch(act_name) = "continue" ->
                                     /\ act_name' = act_name
                                     /\ pc' = "loop"
                                     /\ UNCHANGED <<exit_cause, result>>
                                [] OTHER -> Break("undefined_act") /\ act_name' = act_name
    /\ UNCHANGED <<round_count, doc_count, useless_list, last_act, task_complete,
                   stop_event, elem_list, area, decision, doc,
                   resource_id, doc_files, marked, useless_at_start, stop_at,
                   writes>>

\* The reflection model call fails: rsp["error"]["message"] is printed and the
\* loop breaks, or the subscript raises when rsp is not such a mapping.
ReflectModelFail ==
    /\ pc = "reflect"
    /\ UNCHANGED <<res, res_round, roundlog, srvvars>>
    /\ calls' = [calls EXCEPT !.reflect = @ + 1]
    /\ \E rsp_is_mapping \in BOOLEAN :
          IF rsp_is_mapping THEN Break("reflect_fail") ELSE Raise("TypeError")
    /\ UNCHANGED <<round_count, doc_count, useless_list, last_act, task_complete,
                   stop_event, elem_list, act_name, area, decision, doc,
                   resource_id, doc_files, marked, useless_at_start, stop_at,
                   writes>>

\* The reflection model call succeeds and its verdict is handled up to the
\* next driver or file-system call.  doc holds the response's last element,
\* which the code reads into doc just before the documentation write.
Reflect ==
    /\ pc = "reflect"
    /\ UNCHANGED <<res, res_round, roundlog, srvvars>>
    /\ calls' = [calls EXCEPT !.reflect = @ + 1]
    /\ resource_id' = elem_list[PyIndex(Len(elem_list), area - 1)]
    /\ \E d \in Verdicts, text \in DocTexts :
          /\ decision' = d
          /\ doc' = IF Documents(d) THEN text ELSE doc
          /\ IF MarksUseless(d)
               THEN /\ useless_list' = useless_list \cup {resource_id'}
                    /\ last_act' = "None"
               ELSE UNCHANGED <<useless_list, last_act>>
          /\ marked' = IF d \in {"INEFFECTIVE", "BACK", "CONTINUE"}
                         THEN marked \cup {resource_id'} ELSE marked
          /\ CASE d = "ERROR" -> Break("reflect_error")
               [] d = "INEFFECTIVE" -> pc' = "sleep" /\ UNCHANGED <<exit_cause, result>>
               [] Documents(d) ->
                    /\ pc' = IF NeedsBack(d) THEN "back" ELSE "doc"
                    /\ UNCHANGED <<exit_cause, result>>
               [] OTHER -> Break("undefined_decision")
    /\ UNCHANGED <<round_count, doc_count, task_complete, stop_event, elem_list,
                   act_name, area, doc_files, useless_at_start, stop_at, writes>>

\* selenium_controller.back() after a BACK verdict.
Back ==
    /\ pc = "back"
    /\ UNCHANGED <<res, res_round, reported_act, center, driver_point,
                   docs_at_start, doc_count_at_start, srvvars>>
    /\ calls' = [calls EXCEPT !.back = @ + 1]
    /\ \E r \in DriverRets :
          /\ ret' = r
          /\ IF DriverFailed(r)
               THEN Break("back_error")
               ELSE pc' = "doc" /\ UNCHANGED <<exit_cause, result>>
    /\ UNCHANGED <<round_count, doc_count, useless_list, last_act, task_complete,
                   stop_event, elem_list, act_name, area, decision, doc,
                   resource_id, doc_files, marked, useless_at_start, stop_at,
                   writes>>

\* The documentation write: skipped (continue) when the slot is already
\* filled, otherwise the record is written and doc_count incremented.
DocWrite ==
    /\ pc = "doc"
    /\ UNCHANGED <<res, res_round, roundlog, srvvars>>
    /\ LET exists == resource_id \in DOMAIN doc_files
           doc_content == IF exists THEN doc_files[resource_id] ELSE EmptyDoc
       IN IF exists /\ act_name \notin DOMAIN doc_content
            THEN /\ Raise("KeyError")
                 /\ UNCHANGED <<doc_files, doc_count, calls, writes>>
          ELSE IF exists /\ SlotFilled(doc_content, act_name)
            THEN /\ pc' = "loop"
                 /\ UNCHANGED <<doc_files, doc_count, calls, writes, result, exit_cause>>
            ELSE /\ doc_files' =
                       [u \in DOMAIN doc_files \cup {resource_id} |->
                           IF u = resource_id
                             THEN [k \in DOMAIN doc_content \cup {act_name} |->
                                      IF k = act_name THEN doc ELSE doc_content[k]]
                             ELSE doc_files[u]]
                 /\ doc_count' = NextDocCount(doc_count)
                 /\ UNCHANGED <<result, exit_cause>>
                 /\ calls' = [calls EXCEPT !.write = @ + 1]
                 /\ writes' = IF doc # ""
                                THEN [writes EXCEPT ![resource_id][act_name] = @ + 1]
                                ELSE writes
                 /\ pc' = "sleep"
    /\ UNCHANGED <<round_count, useless_list, last_act, task_complete,
                   stop_event, elem_list, act_name, area, decision, doc,
                   resource_id, marked, useless_at_start, stop_at>>

\* time.sleep(configs["REQUEST_INTERVAL"]) at the end of the loop body.
Sleep ==
    /\ pc = "sleep"
    /\ UNCHANGED <<res, res_round, roundlog, srvvars>>
    /\ pc' = "loop"
    /\ UNCHANGED <<round_count, doc_count, useless_list, last_act, task_complete,
                   stop_event, elem_list, act_name, area, decision, doc,
                   resource_id, doc_files, result, exit_cause, calls, marked,
                   useless_at_start, stop_at, writes>>

\* The code after the loop builds the result and returns it.
Return ==
    /\ pc = "exit"
    /\ UNCHANGED <<res, res_round, roundlog, srvvars>>
    /\ result' = LoopResult(task_complete, round_count, doc_count)
    /\ pc' = "done"
    /\ UNCHANGED <<round_count, doc_count, useless_list, last_act, task_complete,
                   stop_event, elem_list, act_name, area, decision, doc,
                   resource_id, doc_files, exit_cause, calls, marked,
                   useless_at_start, stop_at, writes>>

\* stop_exploration, on the control surface's thread, sets the stop flag while
\* the worker is anywhere in run_exploration.
SetStop ==
    /\ pc # "done"
    /\ UNCHANGED <<res, res_round, roundlog, srvvars>>
    /\ ~stop_event
    /\ stop_event' = TRUE
    /\ stop_at' = [round |-> round_count, pc |-> pc]
    /\ UNCHANGED <<pc, round_count, doc_count, useless_list, last_act,
                   task_complete, elem_list, act_name, area, decision, doc,
                   resource_id, doc_files, result, exit_cause, calls, marked,
                   useless_at_start, writes>>

Next ==
    \/ LoopExit
    \/ StopBreak
    \/ RoundStart
    \/ DecideModelFail
    \/ DecideFinish
    \/ DecideGesture
    \/ DecideOther
    \/ Gesture
    \/ ReflectModelFail
    \/ Reflect
    \/ Back
    \/ DocWrite
    \/ Sleep
    \/ Return
    \/ SetStop

Spec == Init /\ [][Next]_vars

----------------------------------------------------------------------------
(* The control surface: self_explorer_server.py *)

\* Everything run_exploration owns; the request handlers leave it alone.
loopvars == <<pc, round_count, doc_count, useless_list, last_act, task_complete,
              elem_list, res, act_name, area, decision, doc, resource_id,
              doc_files, result, exit_cause, calls, marked, useless_at_start,
              stop_at, res_round, writes, roundlog>>

\* exploration_thread and exploration_thread.is_alive()
ThreadAliveAlways(t) == TRUE
ThreadAlive(t) == t # 0 /\ worker[t] = "alive"

\* How init_exploration ends.  sys.exit(1) raises SystemExit, which is not an
\* Exception, so the except clause does not turn it into the error value.
InitOutcomeAllCaught(failure) == IF failure = "none" THEN "data" ELSE "error"
InitOutcome(failure) ==
    CASE failure = "none" -> "data"
      [] failure \in {"no_start_id", "fetch_status", "node_not_found"} -> "SystemExit"
      [] OTHER -> "error"

\* A handler returns: the request thread is free again.
Respond(r, msg) ==
    /\ handler' = [handler EXCEPT ![r] = "idle"]
    /\ reply' = [reply EXCEPT ![r] = msg]

Goto(r, line) ==
    /\ handler' = [handler EXCEPT ![r] = line]
    /\ reply' = reply

\* A request arrives and its handler starts on a free request thread.
Request(r) ==
    /\ handler[r] = "idle"
    /\ \E first \in {"init30", "explore47", "stop81"} :
          handler' = [handler EXCEPT ![r] = first]
    /\ reply' = [reply EXCEPT ![r] = "none"]
    /\ UNCHANGED <<init_data, exploration_thread, worker, browser, init_call,
                   stop_event, loopvars>>

\* initialize, line 30: init_data = init_exploration(...).  When the call ends
\* in SystemExit the assignment never happens and no response is produced.
InitCall(r) ==
    /\ handler[r] = "init30"
    /\ \E failure \in InitFailures :
          LET outcome == InitOutcome(failure)
          IN /\ init_call' = init_call
             /\ IF outcome = "SystemExit"
                  THEN /\ Respond(r, "no_response")
                       /\ UNCHANGED <<init_data, browser>>
                  ELSE /\ init_data' = outcome
                       /\ browser' = IF outcome = "data" THEN "open" ELSE browser
                       /\ Goto(r, "init32")
    /\ UNCHANGED <<exploration_thread, worker, stop_event, loopvars>>

\* initialize, lines 32-40: the reply is built from the global init_data.
InitReply(r) ==
    /\ handler[r] = "init32"
    /\ CASE init_data = "error" -> Respond(r, "init_error")
         [] init_data = "data" -> Respond(r, "init_ok")
         [] OTHER -> Respond(r, "server_error")
    /\ UNCHANGED <<init_data, exploration_thread, worker, browser, init_call,
                   stop_event, loopvars>>

\* explore, lines 47-50.
ExploreCheckAlive(r) ==
    /\ handler[r] = "explore47"
    /\ IF ThreadAlive(exploration_thread)
         THEN Respond(r, "already_running")
         ELSE Goto(r, "explore52")
    /\ UNCHANGED <<init_data, exploration_thread, worker, browser, init_call,
                   stop_event, loopvars>>

\* explore, lines 52-53: if not init_data.  The error value is a non-empty
\* dict, so it passes.
ExploreCheckInit(r) ==
    /\ handler[r] = "explore52"
    /\ IF init_data = "None"
         THEN Respond(r, "not_initialized")
         ELSE Goto(r, "explore59")
    /\ UNCHANGED <<init_data, exploration_thread, worker, browser, init_call,
                   stop_event, loopvars>>

\* explore, line 59: stop_event.clear()
ExploreClear(r) ==
    /\ handler[r] = "explore59"
    /\ stop_event' = FALSE
    /\ Goto(r, "explore60")
    /\ UNCHANGED <<init_data, exploration_thread, worker, browser, init_call,
                   loopvars>>

\* explore, lines 60-69: exploration_thread = threading.Thread(...)
ExploreCreate(r) ==
    /\ handler[r] = "explore60"
    /\ \E w \in Workers :
          /\ worker[w] = "unborn"
          /\ \A v \in Workers : v < w => worker[v] # "unborn"
          /\ worker' = [worker EXCEPT ![w] = "new"]
          /\ exploration_thread' = w
    /\ Goto(r, "explore70")
    /\ UNCHANGED <<init_data, browser, init_call, stop_event, loopvars>>

\* explore, lines 70-72: exploration_thread.start() on whatever the global
\* holds now.  None has no start, and a thread can be started only once.
ExploreStart(r) ==
    /\ handler[r] = "explore70"
    /\ IF exploration_thread # 0 /\ worker[exploration_thread] = "new"
         THEN /\ worker' = [worker EXCEPT ![exploration_thread] = "alive"]
              /\ Respond(r, "started")
         ELSE /\ worker' = worker
              /\ Respond(r, "server_error")
    /\ UNCHANGED <<init_data, exploration_thread, browser, init_call, stop_event,
                   loopvars>>

\* run_exploration returns in the worker thread.
WorkerEnds(w) ==
    /\ worker[w] = "alive"
    /\ worker' = [worker EXCEPT ![w] = "dead"]
    /\ UNCHANGED <<init_data, exploration_thread, browser, handler, reply,
                   init_call, stop_event, loopvars>>

\* stop_exploration, line 81: stop_event.set()
StopSet(r) ==
    /\ handler[r] = "stop81"
    /\ stop_event' = TRUE
    /\ Goto(r, "stop83")
    /\ UNCHANGED <<init_data, exploration_thread, worker, browser, init_call,
                   loopvars>>

\* stop_exploration, line 83.
StopCheckAlive(r) ==
    /\ handler[r] = "stop83"
    /\ IF ThreadAlive(exploration_thread)
         THEN Goto(r, "stop84")
         ELSE Goto(r, "stop88")
    /\ UNCHANGED <<init_data, exploration_thread, worker, browser, init_call,
                   stop_event, loopvars>>

\* stop_exploration, line 84: exploration_thread.join(timeout=10) returns,
\* because the thread ended or because the ten seconds passed.  The global is
\* read again: if it is None by now the AttributeError is caught at line 105.
StopJoin(r) ==
    /\ handler[r] = "stop84"
    /\ IF exploration_thread = 0
         THEN Respond(r, "stop_error")
         ELSE Goto(r, "stop85")
    /\ UNCHANGED <<init_data, exploration_thread, worker, browser, init_call,
                   stop_event, loopvars>>

\* stop_exploration, lines 85-86 and 105-115.
StopTimeout(r) ==
    /\ handler[r] = "stop85"
    /\ CASE exploration_thread = 0 -> Respond(r, "stop_error")
         [] ThreadAlive(exploration_thread) -> Respond(r, "stop_error")
         [] OTHER -> Goto(r, "stop88")
    /\ UNCHANGED <<init_data, exploration_thread, worker, browser, init_call,
                   stop_event, loopvars>>

\* stop_exploration, lines 88-93: the browser is quit when init_data holds a
\* selenium_controller.
StopQuit(r) ==
    /\ handler[r] = "stop88"
    /\ browser' = IF init_data = "data" THEN "closed" ELSE browser
    /\ Goto(r, "stop95")
    /\ UNCHANGED <<init_data, exploration_thread, worker, init_call, stop_event,
                   loopvars>>

\* stop_exploration, line 95: init_data = None
StopClearInit(r) ==
    /\ handler[r] = "stop95"
    /\ init_data' = "None"
    /\ Goto(r, "stop96")
    /\ UNCHANGED <<exploration_thread, worker, browser, init_call, stop_event,
                   loopvars>>

\* stop_exploration, lines 96-103: exploration_thread = None, then the reply.
StopClearThread(r) ==
    /\ handler[r] = "stop96"
    /\ exploration_thread' = 0
    /\ Respond(r, "stopped")
    /\ UNCHANGED <<init_data, worker, browser, init_call, stop_event, loopvars>>

ServerNext ==
    \/ \E r \in Reqs : Request(r)
    \/ \E r \in Reqs : InitCall(r)
    \/ \E r \in Reqs : InitReply(r)
    \/ \E r \in Reqs : ExploreCheckAlive(r)
    \/ \E r \in Reqs : ExploreCheckInit(r)
    \/ \E r \in Reqs : ExploreClear(r)
    \/ \E r \in Reqs : ExploreCreate(r)
    \/ \E r \in Reqs : ExploreStart(r)
    \/ \E w \in Workers : WorkerEnds(w)
    \/ \E r \in Reqs : StopSet(r)
    \/ \E r \in Reqs : StopCheckAlive(r)
    \/ \E r \in Reqs : StopJoin(r)
    \/ \E r \in Reqs : StopTimeout(r)
    \/ \E r \in Reqs : StopQuit(r)
    \/ \E r \in Reqs : StopClearInit(r)
    \/ \E r \in Reqs : StopClearThread(r)

SpecServer == Init /\ [][ServerNext]_vars

----------------------------------------------------------------------------
(* init_exploration, step by step *)

\* Everything but init_call.
notinit == <<loopvars, stop_event, init_data, exploration_thread, worker,
             browser, handler, reply>>

InitAt(line) == init_call.pc = line

InitGoto(line) == init_call' = [init_call EXCEPT !.pc = line]

InitFail(failure, line) ==
    init_call' = [init_call EXCEPT !.pc = line, !.failure = failure]

\* The call: lines 78-101 make the directories and the log paths.
InitEnter ==
    /\ init_call.pc \in {"idle", "returned", "raised"}
    /\ \E in \in InitInputs :
          init_call' = [pc |-> "line105", in |-> in, failure |-> "none",
                        outcome |-> "none"]
    /\ UNCHANGED notinit

\* Line 105: re.search(...).group(2); without a match this is None.group, an
\* AttributeError.
InitFileKey ==
    /\ InitAt("line105")
    /\ IF init_call.in.url_key
         THEN InitGoto("line106")
         ELSE InitFail("no_file_key", "except")
    /\ UNCHANGED notinit

\* Lines 106-115: sys.exit(1) when the url has no starting-point-node-id.
InitStartId ==
    /\ InitAt("line106")
    /\ IF init_call.in.url_start
         THEN InitGoto("line116")
         ELSE InitFail("no_start_id", "exit")
    /\ UNCHANGED notinit

\* Line 116, get_figma_file_data: the cached file, or the request; a status
\* other than 200 ends in sys.exit(1).
InitFetch ==
    /\ InitAt("line116")
    /\ CASE init_call.in.file \in {"cached", "ok"} -> InitGoto("line118")
         [] init_call.in.file = "status" -> InitFail("fetch_status", "exit")
         [] OTHER -> InitFail("fetch_raises", "except")
    /\ UNCHANGED notinit

\* Lines 118-124: sys.exit(1) when find_node_by_id finds nothing.
InitFindNode ==
    /\ InitAt("line118")
    /\ IF init_call.in.node
         THEN InitGoto("line126")
         ELSE InitFail("node_not_found", "exit")
    /\ UNCHANGED notinit

\* Lines 126-162: the browser is opened, the offset computed, the data returned.
InitBrowser ==
    /\ InitAt("line126")
    /\ IF init_call.in.later
         THEN init_call' = [init_call EXCEPT !.pc = "returned", !.outcome = "data"]
         ELSE InitFail("later_exception", "except")
    /\ UNCHANGED notinit

\* Lines 163-166: except Exception returns the error value.
InitExcept ==
    /\ InitAt("except")
    /\ init_call' = [init_call EXCEPT !.pc = "returned", !.outcome = "error"]
    /\ UNCHANGED notinit

\* SystemExit is not an Exception: it leaves init_exploration through line 163
\* and nothing is returned.
InitSystemExit ==
    /\ InitAt("exit")
    /\ init_call' = [init_call EXCEPT !.pc = "raised", !.outcome = "SystemExit"]
    /\ UNCHANGED notinit

InitNext ==
    \/ InitEnter
    \/ InitFileKey
    \/ InitStartId
    \/ InitFetch
    \/ InitFindNode
    \/ InitBrowser
    \/ InitExcept
    \/ InitSystemExit

SpecInit == Init /\ [][InitNext]_vars

----------------------------------------------------------------------------
(* Properties of the round loop *)

\* C1: the round counter starts at 0, never decreases, increases by exactly 1
\* at the start of each round (the step from the loop test into the round)
\* and by nothing else, and is at most MAX_ROUNDS in every reachable state.
C1_RoundCounter ==
    /\ round_count = 0
    /\ [][round_count' = IF pc = "loop" /\ pc' = "decide"
                           THEN round_count + 1 ELSE round_count]_vars
    /\ [](round_count <= MAX_ROUNDS)

\* A round started when the counter had already reached MAX_ROUNDS - 1.
C1_Witness == pc = "decide" /\ round_count = MAX_ROUNDS

\* C2: once a documentation slot (uid, action kind) holds non-empty text no
\* later step changes it, and no slot receives more than one non-empty write
\* in a session.
C2_WriteOnce ==
    /\ [][\A u \in DOMAIN doc_files : \A k \in DocKeys :
             doc_files[u][k] # "" =>
                 u \in DOMAIN doc_files' /\ doc_files'[u][k] = doc_files[u][k]]_vars
    /\ [](\A u \in UIDs : \A k \in DocKeys : writes[u][k] <= 1)

\* A round offered different text for a slot this session had filled, and the
\* write was skipped.
C2_Witness ==
    /\ pc = "loop"
    /\ decision = "SUCCESS"
    /\ calls.write = 0
    /\ writes[resource_id][act_name] = 1
    /\ doc # ""
    /\ doc # doc_files[resource_id][act_name]

\* C3: every uid acted on with verdict INEFFECTIVE, BACK or CONTINUE is in
\* useless_list from that verdict on, and so at the start of every later
\* round; a round whose verdict is SUCCESS leaves useless_list as it was at
\* the round's start.
C3_UselessAfterVerdict ==
    /\ marked \subseteq useless_list
    /\ pc = "decide" => marked \subseteq useless_at_start
    /\ decision \in {"INEFFECTIVE", "BACK", "CONTINUE"} => resource_id \in useless_list
    /\ decision = "SUCCESS" => useless_list = useless_at_start

\* A later round starts with every uid marked by an earlier verdict in the
\* set its element list is filtered by.
C3_Witness ==
    /\ pc = "decide"
    /\ round_count > 1
    /\ marked # {}
    /\ marked = useless_at_start

\* C4: in every round the number of navigate-back driver calls is 1 once a
\* BACK verdict has been handled (so before the next round starts) and 0 for
\* every other verdict and before the verdict.
C4_BackOnce == calls.back = IF decision = "BACK" /\ pc # "back" THEN 1 ELSE 0

\* A BACK round has run to its end, with its one back call made.
C4_Witness == pc = "loop" /\ decision = "BACK" /\ calls.back = 1

\* C5: a FINISH decision in round k ends the loop at once: task_complete is
\* set, no gesture and no reflection call is made in round k, the round count
\* stays k, and the result reports success with rounds = k.
C5_Finish ==
    /\ [](res.name = "FINISH" =>
            /\ task_complete
            /\ pc \in {"exit", "done"}
            /\ exit_cause = "finish"
            /\ round_count = res_round
            /\ calls.gesture = 0 /\ calls.reflect = 0
            /\ pc = "done" =>
                 /\ result.status = "success"
                 /\ result.task_complete = TRUE
                 /\ result.rounds = res_round)
    /\ [][res.name = "FINISH" => res' = res /\ res_round' = res_round]_vars

\* FINISH was decided in the second round and the function has returned.
C5_Witness == pc = "done" /\ res.name = "FINISH" /\ res_round = 2

\* C6: when the stop flag is set while round k is in progress, the loop is not
\* left for that reason before the round's end, no further round starts, the
\* round count stays k and the result, when the loop is left by the stop
\* check, reports rounds = k.
C6_StopAfterRound ==
    /\ [](stop_at.pc \in MidRound =>
            /\ round_count = stop_at.round
            /\ (pc = "done" /\ exit_cause = "stop") => result.rounds = stop_at.round)
    /\ [][(pc \in MidRound) => (exit_cause' # "stop")]_vars

\* The flag was set before round 1's decision; the round still made its
\* gesture, reflection, back call and documentation write, and the session
\* then ended by the stop check with rounds = 1.
C6_Witness ==
    /\ stop_at = [round |-> 1, pc |-> "decide"]
    /\ pc = "done"
    /\ exit_cause = "stop"
    /\ calls = [gesture |-> 1, reflect |-> 1, back |-> 1, write |-> 1]
    /\ result.rounds = 1

\* C7: after a text decision the round makes no reflection call and writes
\* no documentation, and the loop is not left because of that decision: the
\* session ends only by the round limit or the stop check.
C7_TextContinues ==
    res.name = "text" =>
        /\ calls.reflect = 0
        /\ calls.write = 0
        /\ exit_cause \in {"none", "limit", "stop"}

\* Causes of leaving the loop that are fatal paths.
FatalCauses ==
    {"no_gesture", "model_fail", "driver_error", "undefined_act", "reflect_fail",
     "reflect_error", "undefined_decision", "back_error", "exception"}

\* The element lookup elem_list[a - 1] fails for a list of n elements: the
\* 1-based index a lies beyond the end of the list (a > n), or so far below
\* it that counting from the end leaves the list too (a < 1 - n).
LookupFails(n, a) == a > n \/ a < 1 - n

C9_AllFourReported ==
    (pc = "done" /\ exit_cause \in FatalCauses) =>
        {"status", "rounds", "docs_generated", "message"} \subseteq DOMAIN result

\* C9 as amended: every fatal path returns a result that reports a status; a
\* path that leaves the loop by break reports "incomplete" with the round
\* count reached and the documentation count produced and no message, and a
\* path that raises reports "error" with a message and no counts.
C9_StatusAndCountsOrMessage ==
    (pc = "done" /\ exit_cause \in FatalCauses) =>
        /\ "status" \in DOMAIN result
        /\ IF exit_cause = "exception"
             THEN /\ DOMAIN result = {"status", "message"}
                  /\ result.status = "error"
                  /\ result.message \in {"ValueError", "IndexError", "TypeError"}
             ELSE /\ DOMAIN result = {"status", "task_complete", "rounds", "docs_generated"}
                  /\ result.status = "incomplete"
                  /\ result.rounds = round_count
                  /\ result.docs_generated = doc_count

\* A driver failure in round 2 after one documentation write in round 1.
C9_Witness ==
    /\ pc = "done"
    /\ exit_cause = "driver_error"
    /\ result.rounds = 2
    /\ result.docs_generated = 1

\* C10: when the loop ends because MAX_ROUNDS rounds have run (none decided
\* FINISH), the result has status "incomplete", task_complete = false and
\* rounds = MAX_ROUNDS.
C10_RoundLimit ==
    (pc = "done" /\ exit_cause = "limit") =>
        /\ result.status = "incomplete"
        /\ result.task_complete = FALSE
        /\ result.rounds = MAX_ROUNDS
        /\ ~task_complete

\* The session returned after its last round ended with a documentation write.
C10_Witness ==
    /\ pc = "done"
    /\ exit_cause = "limit"
    /\ round_count = MAX_ROUNDS
    /\ calls.write = 1

----------------------------------------------------------------------------
(* C11 *)

AliveWorkers == {w \in Workers : worker[w] = "alive"}

\* C11: under SpecServer, whatever the interleaving of the request handlers
\* (two /explore at once, /explore with /stop_exploration), at most one
\* exploration worker thread is alive.  The handlers take no lock, so two
\* /explore requests can both pass the checks of lines 47 and 52 before either
\* starts its thread: the statement is violated.
C11_AtMostOneWorker == Cardinality(AliveWorkers) <= 1

----------------------------------------------------------------------------
(* C12 *)

InitEnded == init_call.pc \in {"returned", "raised"}

\* C12: under SpecInit, every init_exploration call that meets a failure (no
\* starting-point-node-id, file fetch failing, starting node not found, any
\* exception) returns the error value to its caller, and no round has run.
\* The three failures handled by sys.exit(1) return nothing: the statement is
\* violated.
C12_StructuredError ==
    (InitEnded /\ init_call.failure # "none")
        => (init_call.outcome = "error" /\ round_count = 0)

----------------------------------------------------------------------------
(* C13 *)

\* The tap or long press of this round came back with ERROR (Back has not run).
GestureFailed == ret = "ERROR" /\ calls.gesture = 1 /\ calls.back = 0

\* C13: when the driver reports ERROR for the gesture of round k, the session
\* ends in round k: no reflection call is made, control is past the loop (no
\* further round can start), and the uninteresting set, the documentation store
\* and the documentation counter are what they were when round k started.
C13_DriverError ==
    GestureFailed =>
        /\ calls.reflect = 0
        /\ decision = "none"
        /\ pc \in {"exit", "done"}
        /\ exit_cause = "driver_error"
        /\ res_round = round_count
        /\ useless_list = useless_at_start
        /\ doc_files = docs_at_start
        /\ doc_count = doc_count_at_start

\* A long press fails in round 2, after round 1 marked an element and wrote a
\* record.
C13_Witness ==
    /\ GestureFailed
    /\ pc = "done"
    /\ res.name = "long_press"
    /\ round_count = 2
    /\ useless_list # {}
    /\ doc_count = 1

----------------------------------------------------------------------------
(* C14 *)

\* The reflection step of this round ended the session: the verdict is ERROR
\* or none of the five known ones, or the model call itself failed.
ReflectAborts ==
    /\ pc = "reflect"
    /\ calls'.reflect = calls.reflect + 1
    /\ \/ decision' \in {"ERROR", "OTHER"}
       \/ decision' = "none"

\* C14: a reflection step whose verdict is ERROR or unknown, or whose model call
\* fails, takes control past the loop in that round and leaves the
\* uninteresting set, the last-action memory, the documentation store and the
\* documentation counter as they were; once past the loop no round starts.
C14_ReflectAbort ==
    [][/\ ReflectAborts =>
            /\ pc' \in {"exit", "done"}
            /\ exit_cause' \in {"reflect_error", "undefined_decision",
                                "reflect_fail", "exception"}
            /\ UNCHANGED <<useless_list, last_act, doc_files, doc_count>>
       /\ (pc \in {"exit", "done"}) =>
            /\ pc' \in {"exit", "done"}
            /\ round_count' = round_count]_vars

\* Round 2 ends on verdict ERROR, after round 1 marked an element and wrote a
\* record; the decision's text is still the last-action memory.
C14_Witness ==
    /\ pc = "done"
    /\ exit_cause = "reflect_error"
    /\ decision = "ERROR"
    /\ round_count = 2
    /\ useless_list # {}
    /\ last_act \in Summaries
    /\ doc_count = 1

----------------------------------------------------------------------------
(* C15 *)

\* Round k is over and round k+1 starts with this step.
NextRoundStarts == pc = "loop" /\ pc' = "decide" /\ round_count >= 1

\* C15: when round k+1 starts, the last-action memory is "None" if round k's
\* verdict was INEFFECTIVE, BACK or CONTINUE, and is the text that round k's
\* decision reported (res[-1]) if the verdict was SUCCESS.
C15_LastActMemory ==
    [][NextRoundStarts =>
          /\ (decision \in {"INEFFECTIVE", "BACK", "CONTINUE"}) => (last_act' = "None")
          /\ (decision = "SUCCESS") =>
                (last_act' = reported_act /\ reported_act \in Summaries)]_vars

\* Round 2 has started after a round 1 that ended in SUCCESS and wrote its
\* record: the memory still holds round 1's text.
C15_Witness ==
    /\ pc = "decide"
    /\ round_count = 2
    /\ last_act \in Summaries
    /\ useless_list = {}
    /\ doc_count = 1

----------------------------------------------------------------------------
(* C16 *)

\* Snapshots of up to three elements, each element once, to exercise the
\* filter alone.
WideUIDs == UIDs \cup {"u3"}
WideSnapshots ==
    {s \in UNION {[1 .. n -> WideUIDs] : n \in 0 .. 3} :
        \A i, j \in DOMAIN s : s[i] = s[j] => i = j}

\* l holds exactly the elements of snapshot s that are not in u, in s's order.
KeptInOrder(l, s, u) ==
    /\ {l[i] : i \in DOMAIN l} = {s[j] : j \in DOMAIN s} \ u
    /\ \A i, j \in DOMAIN l : i < j =>
          \E m, n \in DOMAIN s : m < n /\ s[m] = l[i] /\ s[n] = l[j]

FilterKeepsOrder ==
    \A s \in WideSnapshots, u \in SUBSET WideUIDs :
        KeptInOrder(FilterUseless(s, u), s, u)

\* The element a gesture decision resolves to (elem_list[area - 1]).
Target == elem_list[PyIndex(Len(elem_list), area - 1)]

\* C16: the candidate list of a round holds no element whose uid was in the
\* uninteresting set when the round started, the filter keeps the snapshot's
\* order for the rest, and the element a gesture is about to act on was never
\* marked uninteresting in an earlier round.
C16_CandidatesExcludeUseless ==
    /\ FilterKeepsOrder
    /\ (pc \in MidRound) =>
          \A i \in DOMAIN elem_list : elem_list[i] \notin useless_at_start
    /\ (pc = "gesture") => (Target \notin marked /\ Target \notin useless_list)

\* Round 2 is about to act on u2 after round 1 marked u1.
C16_Witness ==
    /\ pc = "gesture"
    /\ round_count = 2
    /\ marked = {"u1"}
    /\ useless_at_start = {"u1"}
    /\ elem_list = <<"u2">>
    /\ Target = "u2"

----------------------------------------------------------------------------
(* C17 *)

\* Twice the point the claim states for the element uid: the sum of the box's
\* corners is twice its centre, and the offset is added once to the centre.
ClaimedPointTwice(uid) ==
    LET tl == BBox(uid)[1]
        br == BBox(uid)[2]
    IN <<(tl[1] + br[1]) + 2 * CanvasOffset[1], (tl[2] + br[2]) + 2 * CanvasOffset[2]>>

\* The driver's gesture has been called in this round for a 1-based index that
\* lies within elem_list.
GestureOnIndex ==
    /\ calls.gesture = 1
    /\ res.area \in 1 .. Len(elem_list)

\* C17: the point passed to the driver for a gesture on the element at 1-based
\* index i is the centre of that element's box plus the canvas offset (for the
\* box ((10,10),(30,30)) that is (20,20) plus the offset), and the uid recorded
\* after reflection is the uid of the same element i.
C17_InteractionPoint ==
    GestureOnIndex =>
        /\ driver_point = ClaimedPointTwice(elem_list[res.area])
        /\ (elem_list[res.area] = "u1") =>
              driver_point = <<2 * (20 + CanvasOffset[1]), 2 * (20 + CanvasOffset[2])>>
        /\ (resource_id # "none") => (resource_id = elem_list[res.area])

\* tap(2) on the list <<u2, u1>> acted on u1, whose box is ((10,10),(30,30)),
\* and the reflection recorded u1.
C17_Witness ==
    /\ GestureOnIndex
    /\ elem_list = <<"u2", "u1">>
    /\ res.name = "tap"
    /\ res.area = 2
    /\ resource_id = "u1"
    /\ decision = "SUCCESS"

----------------------------------------------------------------------------
(* C18 *)

\* This round's decision breaks the protocol: a gesture whose index is not in
\* 1..n for the n elements of elem_list, or an action that is not recognized.
ProtocolViolation ==
    /\ res_round = round_count
    /\ res_round >= 1
    /\ \/ res.name \in GestureActs /\ res.area \notin 1 .. Len(elem_list)
       \/ res.name = "undefined"

\* C18: after a protocol-violating decision no driver gesture and no reflection
\* call is made in that round and the session has ended.  Python resolves
\* elem_list[area - 1] for area 0 and for small negative areas from the end of
\* the list, so such a decision is acted on: the statement is violated.
C18_ViolationNeverActs ==
    ProtocolViolation =>
        /\ calls.gesture = 0
        /\ calls.reflect = 0
        /\ pc \in {"exit", "done"}

----------------------------------------------------------------------------
(* C19 *)

\* Every persisted record has exactly the five keys.
FixedKeys == \A u \in DOMAIN doc_files : DOMAIN doc_files[u] = DocKeys

\* This round's decision is a swipe on an element of elem_list.
SwipeDecision ==
    /\ res_round = round_count
    /\ res.name = "swipe"
    /\ res.area \in 1 .. Len(elem_list)

----------------------------------------------------------------------------
(* C20 *)

\* The slot this round's verdict is about was empty when the round started.
SlotEmptyAtStart ==
    \/ resource_id \notin DOMAIN docs_at_start
    \/ /\ act_name \in DOMAIN docs_at_start[resource_id]
       /\ docs_at_start[resource_id][act_name] = ""

\* docs_at_start with the record of uid created if missing and its slot set.
WithSlot(uid, key, text) ==
    [u \in DOMAIN docs_at_start \cup {uid} |->
        IF u = uid
          THEN [(IF u \in DOMAIN docs_at_start THEN docs_at_start[u] ELSE EmptyDoc)
                    EXCEPT ![key] = text]
          ELSE docs_at_start[u]]

\* The round in progress has run to its end without being aborted.
RoundCompleted == pc \in {"sleep", "loop"} /\ res_round = round_count /\ res_round >= 1

\* C20: within a round the documentation counter is its value at the round's
\* start plus 1 if the round has persisted a record and plus 0 otherwise; a
\* record is persisted only for a verdict BACK, CONTINUE or SUCCESS on a slot
\* that was empty, and every completed round with such a verdict on an empty
\* slot persists one; until a record is persisted the store is as it was at
\* the round's start.
C20_DocCounter ==
    /\ calls.write \in {0, 1}
    /\ doc_count = doc_count_at_start + calls.write
    /\ (calls.write = 0) => (doc_files = docs_at_start)
    /\ (calls.write = 1) =>
          /\ decision \in {"BACK", "CONTINUE", "SUCCESS"}
          /\ SlotEmptyAtStart
          /\ doc_files = WithSlot(resource_id, act_name, doc)
    /\ (RoundCompleted /\ decision \in {"BACK", "CONTINUE", "SUCCESS"} /\ SlotEmptyAtStart)
          => (calls.write = 1)

\* Round 2 persisted a record after a CONTINUE verdict, as round 1 had done.
C20_Witness ==
    /\ pc = "loop"
    /\ round_count = 2
    /\ decision = "CONTINUE"
    /\ calls.write = 1
    /\ doc_count = 2

----------------------------------------------------------------------------
(* C21 *)

\* This step quits the browser or clears the initialization data.
CleansUp ==
    \/ browser = "open" /\ browser' = "closed"
    \/ init_data # "None" /\ init_data' = "None"

\* This step is the join timeout of a stop handler: the worker is still alive
\* at line 85.
JoinTimesOut(r) ==
    /\ handler[r] = "stop85"
    /\ ThreadAlive(exploration_thread)
    /\ handler'[r] = "idle"

\* C21: under SpecServer, no step quits the browser or clears the
\* initialization data while an exploration worker is alive, and a stop handler
\* that finds the worker alive after the join timeout answers with an error and
\* leaves init data, browser and worker reference as they are.  The second part
\* holds; the first is violated, because /explore can start a worker after the
\* stop handler has passed its is-alive test and before it cleans up.
C21_NoCleanupWhileAlive ==
    [][/\ CleansUp => (AliveWorkers = {})
       /\ \A r \in Reqs :
            JoinTimesOut(r) =>
                /\ reply'[r] = "stop_error"
                /\ UNCHANGED <<init_data, browser, exploration_thread>>]_vars

----------------------------------------------------------------------------
(* C22 *)

\* This step is request r's exploration_thread.start() bringing a worker alive.
StartsWorker(r) ==
    /\ handler[r] = "explore70"
    /\ AliveWorkers' # AliveWorkers

----------------------------------------------------------------------------
(* C23 *)

\* The steps of the session's own thread: every step of Next but the stop
\* request, which comes from outside.
LoopStep ==
    \/ LoopExit
    \/ StopBreak
    \/ RoundStart
    \/ DecideModelFail
    \/ DecideFinish
    \/ DecideGesture
    \/ DecideOther
    \/ Gesture
    \/ ReflectModelFail
    \/ Reflect
    \/ Back
    \/ DocWrite
    \/ Sleep
    \/ Return

\* Every model call, driver call and sleep returns: the session's thread is
\* never stuck before a step it can take.
SpecFair == Init /\ [][Next]_vars /\ WF_vars(LoopStep)

\* C23: under SpecFair every session eventually returns, having run at most
\* MAX_ROUNDS rounds; and from the moment the stop flag is set no round starts
\* (the round counter stays), so the session returns after the round in
\* progress.
C23_Terminates ==
    /\ <>(pc = "done")
    /\ [](pc = "done" => round_count <= MAX_ROUNDS)
    /\ [][stop_event => (round_count' = round_count)]_vars

\* The flag was set during round 1 of a session that could have run two rounds,
\* and the session has returned after that round.
C23_Witness ==
    /\ pc = "done"
    /\ exit_cause = "stop"
    /\ stop_at.round = 1
    /\ stop_at.pc = "gesture"
    /\ round_count = 1
    /\ result.status = "incomplete"

----------------------------------------------------------------------------
(* C24 *)

\* Positions from the reflection call to the end of the round.
AfterReflection == {"reflect", "back", "doc", "sleep"}

\* C24: once the reflection call of round k has been reached, control gets back
\* to the top of the loop, where round k+1 and its decision call start, only
\* through the sleep of the configured delay.  When the documentation slot is
\* already filled the code leaves the round by `continue`, which skips the
\* sleep: the statement is violated.
C24_DelayBeforeNextRound ==
    [][(pc \in AfterReflection /\ pc' = "loop") => (pc = "sleep")]_vars

====
